---- MODULE Spec2Model ----
(***************************************************************************)
(* Model of main.py of 4strader: the image URL resolver                    *)
(* get_original_image_url and the state it is called from.                 *)
(*                                                                         *)
(* A Python str is a sequence of one-character strings, so that split,     *)
(* strip, endswith, int and the two regular expressions are computed on    *)
(* characters as the interpreter computes them.  Python's None is the      *)
(* one-element sequence None, which no str equals (its element is not a    *)
(* single character).                                                      *)
(***************************************************************************)
EXTENDS Integers, Sequences, FiniteSets, TLC

----------------------------------------------------------------------------
(* Characters and str primitives *)

None == <<"None">>

\* `is not None' in place of the truth test
Truthy_NotNone(v) == v # None

\* `if v' / `not v' for a str or None
Truthy(v) == v # None /\ v # <<>>

Digits == {"0", "1", "2", "3", "4", "5", "6", "7", "8", "9"}

AsciiLetters ==
    {"a", "b", "c", "d", "e", "f", "g", "h", "i", "j", "k", "l", "m",
     "n", "o", "p", "q", "r", "s", "t", "u", "v", "w", "x", "y", "z",
     "A", "B", "C", "D", "E", "F", "G", "H", "I", "J", "K", "L", "M",
     "N", "O", "P", "Q", "R", "S", "T", "U", "V", "W", "X", "Y", "Z"}

\* the ASCII characters str.split() and str.strip() treat as whitespace
Whitespace == {" ", "\t", "\n", "\r", "\f"}

DigitVal(c) ==
    CASE c = "0" -> 0 [] c = "1" -> 1 [] c = "2" -> 2 [] c = "3" -> 3
      [] c = "4" -> 4 [] c = "5" -> 5 [] c = "6" -> 6 [] c = "7" -> 7
      [] c = "8" -> 8 [] c = "9" -> 9

\* s[from:] of Python, from counted from 1
Tail_(s, from) == SubSeq(s, from, Len(s))

\* s.split(','): the pieces between commas, always at least one piece
RECURSIVE SplitComma(_)
SplitComma(s) ==
    LET commas == {i \in 1..Len(s) : s[i] = ","}
    IN  IF commas = {} THEN <<s>>
        ELSE LET i == CHOOSE c \in commas : \A d \in commas : c <= d
             IN  <<SubSeq(s, 1, i - 1)>> \o SplitComma(Tail_(s, i + 1))

\* s.strip(): leading and trailing whitespace removed
Strip(s) ==
    LET solid == {i \in 1..Len(s) : s[i] \notin Whitespace}
    IN  IF solid = {} THEN <<>>
        ELSE LET lo == CHOOSE i \in solid : \A j \in solid : i <= j
                 hi == CHOOSE i \in solid : \A j \in solid : i >= j
             IN  SubSeq(s, lo, hi)

\* s.split(): the maximal runs of non-whitespace characters
RECURSIVE SplitWhitespace(_)
SplitWhitespace(s) ==
    LET solid == {i \in 1..Len(s) : s[i] \notin Whitespace}
    IN  IF solid = {} THEN <<>>
        ELSE LET lo == CHOOSE i \in solid : \A j \in solid : i <= j
                 gaps == {i \in lo..Len(s) : s[i] \in Whitespace}
                 hi == IF gaps = {} THEN Len(s)
                       ELSE (CHOOSE i \in gaps : \A j \in gaps : i <= j) - 1
             IN  <<SubSeq(s, lo, hi)>> \o SplitWhitespace(Tail_(s, hi + 1))

\* s.endswith('w')
EndsWithW(s) == Len(s) >= 1 /\ s[Len(s)] = "w"

\* int(s) accepts an optional sign, then decimal digits that single
\* underscores may separate; anything else raises ValueError
IntAccepts(s) ==
    LET body == IF Len(s) >= 1 /\ s[1] \in {"+", "-"} THEN Tail_(s, 2) ELSE s
    IN  /\ Len(body) >= 1
        /\ body[1] \in Digits
        /\ body[Len(body)] \in Digits
        /\ \A i \in 1..Len(body) : body[i] \in Digits \cup {"_"}
        /\ \A i \in 1..(Len(body) - 1) : ~(body[i] = "_" /\ body[i + 1] = "_")

RECURSIVE DecimalValue(_, _)
DecimalValue(s, acc) ==
    IF s = <<>> THEN acc
    ELSE IF Head(s) = "_" THEN DecimalValue(Tail(s), acc)
    ELSE DecimalValue(Tail(s), 10 * acc + DigitVal(Head(s)))

\* the value of int(s) when int(s) does not raise
IntValue(s) ==
    IF s[1] = "-" THEN 0 - DecimalValue(Tail(s), 0)
    ELSE IF s[1] = "+" THEN DecimalValue(Tail(s), 0)
    ELSE DecimalValue(s, 0)

----------------------------------------------------------------------------
(* The two regular expressions *)

\* where `$' can match: at the end, or just before a final newline
DollarPositions(s) ==
    {Len(s)} \cup (IF Len(s) >= 1 /\ s[Len(s)] = "\n" THEN {Len(s) - 1} ELSE {})

\* \d+
IsDigitRun(t) == Len(t) >= 1 /\ \A i \in 1..Len(t) : t[i] \in Digits

\* [a-zA-Z]{lo,hi}
IsLetterRun(t, lo, hi) ==
    Len(t) \in lo..hi /\ \A i \in 1..Len(t) : t[i] \in AsciiLetters

\* -\d+x\d+
IsDimensions(t) ==
    /\ Len(t) >= 4
    /\ t[1] = "-"
    /\ \E k \in {k \in 3..(Len(t) - 1) : t[k] = "x"} :
          /\ IsDigitRun(SubSeq(t, 2, k - 1))
          /\ IsDigitRun(Tail_(t, k + 1))

\* -\d+x\d+(@\dx)?
IsResizeSuffix(t) ==
    \/ IsDimensions(t)
    \/ /\ Len(t) >= 7
       /\ IsDimensions(SubSeq(t, 1, Len(t) - 3))
       /\ t[Len(t) - 2] = "@"
       /\ t[Len(t) - 1] \in Digits
       /\ t[Len(t)] = "x"

\* the filter takes the suffixes and extensions the cleaning pattern takes
LooksResized_LikeCleaning(url) ==
    \E e \in DollarPositions(url) :
      \E k \in {k \in 1..e : url[k] = "."} :
        /\ IsLetterRun(SubSeq(url, k + 1, e), 3, 5)
        /\ \E i \in {i \in 1..k : url[i] = "-"} :
              IsResizeSuffix(SubSeq(url, i, k - 1))

\* re.search(r'-\d+x\d+\.[a-zA-Z]{3,4}$', url)
LooksResized(url) ==
    \E e \in DollarPositions(url) :
      \E k \in {k \in 1..e : url[k] = "."} :
        /\ IsLetterRun(SubSeq(url, k + 1, e), 3, 4)
        /\ \E i \in {i \in 1..k : url[i] = "-"} :
              IsDimensions(SubSeq(url, i, k - 1))

\* the ways r'^(.*)(-\d+x\d+(@\dx)?)\.([a-zA-Z]{3,5})$' matches s: the
\* length of group 1, the position of the dot, and where `$' matched
CleanSplits(s) ==
    {sp \in (0..Len(s)) \X (1..Len(s)) \X DollarPositions(s) :
        /\ sp[1] < sp[2]
        /\ sp[2] <= sp[3]
        /\ s[sp[2]] = "."
        /\ \A i \in 1..sp[1] : s[i] # "\n"
        /\ IsResizeSuffix(SubSeq(s, sp[1] + 1, sp[2] - 1))
        /\ IsLetterRun(SubSeq(s, sp[2] + 1, sp[3]), 3, 5)}

\* the match re.match reports: group 1 is greedy, so the longest one
GreedySplit(splits) == CHOOSE sp \in splits : \A o \in splits : sp[1] >= o[1]

\* lines 64-66: base_name, a dot and extension, for the match m of s
CleanedUrl(s, m) == SubSeq(s, 1, m[1]) \o <<".">> \o SubSeq(s, m[2] + 1, m[3])

RECURSIVE StripResizeSuffix_Repeated(_)
\* the cleaning repeated until the pattern matches no more
StripResizeSuffix_Repeated(best_url) ==
    IF CleanSplits(best_url) # {}
    THEN StripResizeSuffix_Repeated(
             CleanedUrl(best_url, GreedySplit(CleanSplits(best_url))))
    ELSE best_url

\* line 69 left out: nothing returned when the pattern does not match
StripResizeSuffix_NoMatchNone(best_url) ==
    IF CleanSplits(best_url) # {}
    THEN CleanedUrl(best_url, GreedySplit(CleanSplits(best_url)))
    ELSE None

\* the cleaned URL built from group 1 alone, the extension forgotten
StripResizeSuffix_DropsExtension(best_url) ==
    IF CleanSplits(best_url) # {}
    THEN SubSeq(best_url, 1, GreedySplit(CleanSplits(best_url))[1])
    ELSE best_url

\* lines 62-69: strip the resize suffix that precedes the extension
StripResizeSuffix(best_url) ==
    IF CleanSplits(best_url) # {}
    THEN CleanedUrl(best_url, GreedySplit(CleanSplits(best_url)))
    ELSE best_url

----------------------------------------------------------------------------
(* get_original_image_url *)

RECURSIVE ParseEntries(_, _)

\* the branch of line 37 left out: a bare URL yields no candidate
ParseEntry_BareIgnored(parts, rest, candidates) ==
    IF Len(parts) = 2
    THEN IF EndsWithW(parts[2])
         THEN IF IntAccepts(SubSeq(parts[2], 1, Len(parts[2]) - 1))
              THEN ParseEntries(rest,
                       Append(candidates,
                           [url |-> parts[1],
                            width |-> IntValue(SubSeq(parts[2], 1, Len(parts[2]) - 1))]))
              ELSE [exc |-> "ValueError", candidates |-> candidates]
         ELSE ParseEntries(rest, candidates)
    ELSE ParseEntries(rest, candidates)

\* `len(parts) >= 2' at line 32: the first two tokens of a longer entry taken
ParseEntry_TakesFirstTwo(parts, rest, candidates) ==
    IF Len(parts) >= 2
    THEN IF EndsWithW(parts[2])
         THEN IF IntAccepts(SubSeq(parts[2], 1, Len(parts[2]) - 1))
              THEN ParseEntries(rest,
                       Append(candidates,
                           [url |-> parts[1],
                            width |-> IntValue(SubSeq(parts[2], 1, Len(parts[2]) - 1))]))
              ELSE [exc |-> "ValueError", candidates |-> candidates]
         ELSE ParseEntries(rest, candidates)
    ELSE IF Len(parts) = 1
    THEN ParseEntries(rest, Append(candidates, [url |-> parts[1], width |-> 0]))
    ELSE ParseEntries(rest, candidates)

\* int() guarded entry by entry: a width that is no integer skips its entry
ParseEntry_SkipsBadWidth(parts, rest, candidates) ==
    IF Len(parts) = 2
    THEN IF EndsWithW(parts[2]) /\ IntAccepts(SubSeq(parts[2], 1, Len(parts[2]) - 1))
         THEN ParseEntries(rest,
                  Append(candidates,
                      [url |-> parts[1],
                       width |-> IntValue(SubSeq(parts[2], 1, Len(parts[2]) - 1))]))
         ELSE ParseEntries(rest, candidates)
    ELSE IF Len(parts) = 1
    THEN ParseEntries(rest, Append(candidates, [url |-> parts[1], width |-> 0]))
    ELSE ParseEntries(rest, candidates)

\* lines 32-38: the body of the loop for the tokens parts of one entry, and
\* then the entries rest; exc is the exception that ended the loop ("none"
\* when it ran to the end) and candidates is then the list as it stood when
\* int() raised
ParseEntry(parts, rest, candidates) ==
    IF Len(parts) = 2
    THEN IF EndsWithW(parts[2])
         THEN IF IntAccepts(SubSeq(parts[2], 1, Len(parts[2]) - 1))
              THEN ParseEntries(rest,
                       Append(candidates,
                           [url |-> parts[1],
                            width |-> IntValue(SubSeq(parts[2], 1, Len(parts[2]) - 1))]))
              ELSE [exc |-> "ValueError", candidates |-> candidates]
         ELSE ParseEntries(rest, candidates)
    ELSE IF Len(parts) = 1
    THEN ParseEntries(rest, Append(candidates, [url |-> parts[1], width |-> 0]))
    ELSE ParseEntries(rest, candidates)

\* lines 30-31: the loop over the entries, each stripped and split
ParseEntries(entries, candidates) ==
    IF entries = <<>> THEN [exc |-> "none", candidates |-> candidates]
    ELSE ParseEntry(SplitWhitespace(Strip(Head(entries))), Tail(entries), candidates)

\* lines 29-38: the candidates of the srcset, in order
ParseSrcset(srcset_str) == ParseEntries(SplitComma(srcset_str), <<>>)

\* the last element of greatest width in place of the first
MaxByWidth_LastWins(cs) ==
    cs[CHOOSE i \in DOMAIN cs :
          /\ \A j \in DOMAIN cs : cs[j].width <= cs[i].width
          /\ \A j \in (i + 1)..Len(cs) : cs[j].width < cs[i].width]

\* min in place of max: the first element of least width
MaxByWidth_Narrowest(cs) ==
    cs[CHOOSE i \in DOMAIN cs :
          /\ \A j \in DOMAIN cs : cs[j].width >= cs[i].width
          /\ \A j \in 1..(i - 1) : cs[j].width > cs[i].width]

\* max(cs, key=lambda x: x['width']): the first element of greatest width
MaxByWidth(cs) ==
    cs[CHOOSE i \in DOMAIN cs :
          /\ \A j \in DOMAIN cs : cs[j].width <= cs[i].width
          /\ \A j \in 1..(i - 1) : cs[j].width < cs[i].width]

NotResized(c) == ~LooksResized(c.url)

\* the selection without the filename filter: greatest width of all
SelectBestUrl_WidthOnly(candidates) ==
    IF candidates # <<>> THEN MaxByWidth(candidates).url ELSE None

\* lines 40-48: best_url after the selection (None when there is no candidate)
SelectBestUrl(candidates) ==
    IF candidates # <<>>
    THEN IF SelectSeq(candidates, NotResized) # <<>>
         THEN MaxByWidth(SelectSeq(candidates, NotResized)).url
         ELSE MaxByWidth(candidates).url
    ELSE None

\* `except TypeError' in place of `except Exception'
ExceptCatches_TypeErrorOnly(exc) == exc \in {"TypeError"}

\* line 49: `except Exception' catches every exception the parse can raise
ExceptCatches(exc) == exc \in {"ValueError", "TypeError", "IndexError"}

\* the selection made from the candidates parsed before the exception
AfterParse_KeepsParsed(p) ==
    [candidates |-> p.candidates, exc |-> p.exc, escaped |-> "none",
     best_url |-> SelectBestUrl(p.candidates)]

\* lines 40-51: the selection when the loop p ran to the end, the handler
\* when it raised; escaped is the exception the try statement lets through
AfterParse(p) ==
    IF p.exc = "none"
    THEN [candidates |-> p.candidates, exc |-> "none", escaped |-> "none",
          best_url |-> SelectBestUrl(p.candidates)]
    ELSE [candidates |-> p.candidates, exc |-> p.exc,
          escaped |-> IF ExceptCatches(p.exc) THEN "none" ELSE p.exc,
          best_url |-> None]

\* lines 24-51: the srcset step
TrySrcset(srcset_str) ==
    IF Truthy(srcset_str)
    THEN AfterParse(ParseSrcset(srcset_str))
    ELSE [candidates |-> <<>>, exc |-> "none", escaped |-> "none", best_url |-> None]

\* src preferred to the srcset's choice whenever src is present
FallBackToSrc_PrefersSrc(best_url, image_url) ==
    IF Truthy(image_url) THEN image_url ELSE best_url

\* no fall back: best_url stays as the srcset step left it
FallBackToSrc_Never(best_url, image_url) == best_url

\* lines 54-55
FallBackToSrc(best_url, image_url) ==
    IF ~Truthy(best_url) THEN image_url ELSE best_url

\* lines 58-69
CleanUrl(best_url) ==
    IF ~Truthy(best_url) THEN None ELSE StripResizeSuffix(best_url)

\* what result holds when the call raised instead of returning
NoReturn == <<"raised">>

\* lines 53-69 after the srcset step t: the working URL, cleaned
AfterSrcset(t, image_url) ==
    IF t.escaped # "none"
    THEN [ret |-> NoReturn, raised |-> TRUE, candidates |-> t.candidates,
          exc |-> t.exc, best_url |-> None]
    ELSE [ret |-> CleanUrl(FallBackToSrc(t.best_url, image_url)), raised |-> FALSE,
          candidates |-> t.candidates, exc |-> t.exc,
          best_url |-> FallBackToSrc(t.best_url, image_url)]

\* line 22 returning its argument instead of None
GetOriginalImageUrl_ReturnsSrc(image_url, srcset_str) ==
    IF ~Truthy(image_url) /\ ~Truthy(srcset_str)
    THEN [ret |-> image_url, raised |-> FALSE, candidates |-> <<>>, exc |-> "none",
          best_url |-> None]
    ELSE AfterSrcset(TrySrcset(srcset_str), image_url)

\* lines 15-69: the locals of one call and what it returns
GetOriginalImageUrl(image_url, srcset_str) ==
    IF ~Truthy(image_url) /\ ~Truthy(srcset_str)
    THEN [ret |-> None, raised |-> FALSE, candidates |-> <<>>, exc |-> "none",
          best_url |-> None]
    ELSE AfterSrcset(TrySrcset(srcset_str), image_url)

----------------------------------------------------------------------------
(* Inputs *)

\* the greatest number of comma-separated entries of a srcset
MaxEntries == 2

\* "a.jpg 500w"
EntryOriginal == <<"a", ".", "j", "p", "g", " ", "5", "0", "0", "w">>
\* "a-300x300.jpg  300w"
Entry300 ==
    <<"a", "-", "3", "0", "0", "x", "3", "0", "0", ".", "j", "p", "g",
      " ", " ", "3", "0", "0", "w">>
\* "a-800x800.jpg 800w"
Entry800 ==
    <<"a", "-", "8", "0", "0", "x", "8", "0", "0", ".", "j", "p", "g",
      " ", "8", "0", "0", "w">>
\* "c.jpg"
EntryBare == <<"c", ".", "j", "p", "g">>
\* "a.jpg 1.5w"
EntryBadWidth == <<"a", ".", "j", "p", "g", " ", "1", ".", "5", "w">>
\* "a.jpg 2x"
EntryDensity == <<"a", ".", "j", "p", "g", " ", "2", "x">>
\* "a.jpg 800w 2x"
EntryThreeTokens ==
    <<"a", ".", "j", "p", "g", " ", "8", "0", "0", "w", " ", "2", "x">>
\* "a-300x300@2x.jpg 500w"
EntryRetina ==
    <<"a", "-", "3", "0", "0", "x", "3", "0", "0", "@", "2", "x",
      ".", "j", "p", "g", " ", "5", "0", "0", "w">>
\* "a-300x300.jpegs 1000w"
EntryLongExt ==
    <<"a", "-", "3", "0", "0", "x", "3", "0", "0", ".", "j", "p", "e", "g", "s",
      " ", "1", "0", "0", "0", "w">>
\* ""
EntryEmpty == <<>>

Entries ==
    {EntryOriginal, Entry300, Entry800, EntryBare, EntryBadWidth, EntryDensity,
     EntryThreeTokens, EntryRetina, EntryLongExt, EntryEmpty}

\* the entries written one after the other, ", " between them
RECURSIVE JoinEntries(_)
JoinEntries(es) ==
    IF Len(es) = 1 THEN es[1]
    ELSE es[1] \o <<",", " ">> \o JoinEntries(Tail(es))

SrcsetInputs ==
    {None, <<>>}
      \cup {JoinEntries(es) : es \in UNION {[1..n -> Entries] : n \in 1..MaxEntries}}

\* "i.jpg"
SrcPlain == <<"i", ".", "j", "p", "g">>
\* "i-300x300.jpg"
SrcResized == <<"i", "-", "3", "0", "0", "x", "3", "0", "0", ".", "j", "p", "g">>
\* "i-100x100-200x200.jpg"
SrcTwoSuffixes ==
    <<"i", "-", "1", "0", "0", "x", "1", "0", "0", "-", "2", "0", "0", "x", "2", "0", "0",
      ".", "j", "p", "g">>
\* "i-300x300@2x.jpeg\n"
SrcRetinaNewline ==
    <<"i", "-", "3", "0", "0", "x", "3", "0", "0", "@", "2", "x",
      ".", "j", "p", "e", "g", "\n">>

SrcInputs ==
    {None, <<>>, SrcPlain, SrcResized, SrcTwoSuffixes, SrcRetinaNewline}

----------------------------------------------------------------------------
(* sanitize_filename and the values extract_product_info builds *)

\* the characters the first re.sub deletes
ForbiddenChars == {"<", ">", ":", "\"", "/", "\\", "|", "?", "*"}

\* the longest name sanitize_filename returns
MaxFilenameLen == 100

\* re.sub(r'[<>:"/\\|?*]', '', name)
RECURSIVE RemoveForbidden(_)
RemoveForbidden(name) ==
    IF name = <<>> THEN <<>>
    ELSE IF Head(name) \in ForbiddenChars THEN RemoveForbidden(Tail(name))
    ELSE <<Head(name)>> \o RemoveForbidden(Tail(name))

\* re.sub(r'\s+', '_', name): each run of whitespace becomes one underscore
RECURSIVE CollapseWhitespace(_)
CollapseWhitespace(name) ==
    IF name = <<>> THEN <<>>
    ELSE IF Head(name) \notin Whitespace
         THEN <<Head(name)>> \o CollapseWhitespace(Tail(name))
    ELSE IF Len(name) > 1 /\ name[2] \in Whitespace
         THEN CollapseWhitespace(Tail(name))
    ELSE <<"_">> \o CollapseWhitespace(Tail(name))

\* name[:100]
Truncate(name) ==
    SubSeq(name, 1, IF Len(name) < MaxFilenameLen THEN Len(name) ELSE MaxFilenameLen)

SanitizeFilename(name) == Truncate(CollapseWhitespace(RemoveForbidden(name)))

\* "N/A", the default of every text field of product_data
NA == <<"N", "/", "A">>

DigitChar(d) == CHOOSE c \in Digits : DigitVal(c) = d

\* str(n) for n >= 0
RECURSIVE DecimalString(_)
DecimalString(n) ==
    IF n < 10 THEN <<DigitChar(n)>>
    ELSE DecimalString(n \div 10) \o <<DigitChar(n % 10)>>

\* "TEMP_DEFAULT_" and "TEMP_WOODMART_"
TempPrefix(st) ==
    IF st = "default"
    THEN <<"T", "E", "M", "P", "_", "D", "E", "F", "A", "U", "L", "T", "_">>
    ELSE <<"T", "E", "M", "P", "_", "W", "O", "O", "D", "M", "A", "R", "T", "_">>

\* id.startswith("TEMP_")
StartsWithTemp(id) ==
    Len(id) >= 5 /\ SubSeq(id, 1, 5) = <<"T", "E", "M", "P", "_">>

\* the ID of the container c at position i: the one its markup gives, or the
\* generated one
ProductId(c, st, i) ==
    IF c.id # None THEN c.id ELSE TempPrefix(st) \o DecimalString(i + 1)

\* raw_image_src: None unless the container has an img tag
RawImageSrc(c) == IF c.has_img THEN c.src ELSE None

\* product_data["image_url"]: None unless the container has an img tag
ImageUrl(c) ==
    IF c.has_img THEN GetOriginalImageUrl(c.src, c.srcset).ret ELSE None

\* product_data and raw_image_src as each loop iteration first sets them
FreshProductData ==
    [id |-> NA, name |-> NA, image_url |-> None, raw_image_src |-> None,
     folder |-> None, status |-> "fresh"]

\* product_data and raw_image_src once the selectors have run on c
Extracted(c, id) ==
    [id |-> id, name |-> c.name, image_url |-> ImageUrl(c),
     raw_image_src |-> RawImageSrc(c), folder |-> None, status |-> "extracted"]

\* the image link is written even when there is no image
ImageLinkForTxt_Always(d) == d.image_url

\* product_data["image_link_for_txt"]
ImageLinkForTxt(d) == IF Truthy(d.image_url) THEN d.image_url ELSE NA

\* the missing-info test passes every product
MissingInfo_Never(d) == FALSE

\* name == "N/A" and id.startswith("TEMP_")
MissingInfo(d) == d.name = NA /\ StartsWithTemp(d.id)

\* product_folder_name
FolderName(d) ==
    SanitizeFilename(IF d.name # NA THEN d.name
                     ELSE <<"p", "r", "o", "d", "u", "c", "t", "_">> \o d.id)

\* what info_product.txt holds of the product d
InfoFile(d) ==
    [name |-> d.name, id |-> d.id, image_link |-> ImageLinkForTxt(d)]

\* no fallback download is tried
WantsFallback_Never(d, outcome) == FALSE

\* the fallback download is tried after every request error
WantsFallback_Unconditional(d, outcome) == outcome = "request_error"

\* the except clause of line 296 is entered and the test of line 298 passes
WantsFallback(d, outcome) ==
    /\ outcome = "request_error"
    /\ Truthy(d.raw_image_src)
    /\ d.raw_image_src # d.image_url

----------------------------------------------------------------------------
(* The product containers the driver is run on *)

\* the most containers one document holds
MaxContainers == 2

\* "11", "12", "13"
Id11 == <<"1", "1">>
Id12 == <<"1", "2">>
Id13 == <<"1", "3">>

\* "Soap", "So?ap", "Big  Lamp"
NameSoap == <<"S", "o", "a", "p">>
NameSoapQ == <<"S", "o", "?", "a", "p">>
NameBigLamp == <<"B", "i", "g", " ", " ", "L", "a", "m", "p">>

\* a resized src and no srcset: the resolved URL differs from the raw src
ContainerSoap ==
    [id |-> Id11, name |-> NameSoap, has_img |-> TRUE,
     src |-> SrcResized, srcset |-> None]
\* a full-size src: the resolved URL is the raw src
ContainerLamp ==
    [id |-> Id12, name |-> NameBigLamp, has_img |-> TRUE,
     src |-> SrcPlain, srcset |-> None]
\* the ID of ContainerSoap again, a name that sanitizes to its folder name,
\* an img tag with a srcset and no src
ContainerSoapAgain ==
    [id |-> Id11, name |-> NameSoapQ, has_img |-> TRUE,
     src |-> None, srcset |-> EntryOriginal]
\* no ID, no title, no img tag
ContainerBlank ==
    [id |-> None, name |-> NA, has_img |-> FALSE, src |-> None, srcset |-> None]
\* an ID, no title, no img tag
ContainerNameless ==
    [id |-> Id13, name |-> NA, has_img |-> FALSE, src |-> None, srcset |-> None]

Containers ==
    {ContainerSoap, ContainerLamp, ContainerSoapAgain, ContainerBlank,
     ContainerNameless}

SiteTypes == {"default", "woodmart", "other"}

\* how a download attempt can end: the response saved, a
\* requests.exceptions.RequestException, any other exception
Outcomes == {"ok", "request_error", "other_error"}

----------------------------------------------------------------------------
(* The state of the program *)

VARIABLES
    image_url,      \* the src argument of the latest call
    srcset_str,     \* the srcset argument of the latest call
    pc,             \* "ready" before the call is made, "done" after it
    candidates,     \* the local candidates when the srcset step ended
    parse_exc,      \* the exception raised inside the try statement
    best_url,       \* the local best_url after line 55, the working URL
    result,         \* the value returned
    raised,         \* TRUE when the call raised to its caller
    repeated,       \* TRUE when the latest call followed another call
    earlier         \* the first call made, for comparison with later ones

VARIABLES
    processed_product_folders,  \* the module-level set of line 8
    fs_base,        \* TRUE when the directory "products" exists
    fs_folders,     \* the names of the directories under "products"
    fs_info,        \* folder name -> what its info_product.txt holds
    fs_images,      \* <<folder name, URL>>: the response of URL was saved
                    \* under the folder's main_images
    dpc,            \* where extract_product_info stands: "idle" outside a call
    returned,       \* how the latest call of extract_product_info ended,
                    \* "reset" once reset_folder_tracking was called after it
    site_type,      \* the site_type argument of the call under way
    after_reset,    \* TRUE when that call was the first one made after a
                    \* call of reset_folder_tracking
    n_containers,   \* len(product_containers)
    index,          \* the containers the loop has finished with
    processed_product_ids,
    products_added,
    products_skipped_duplicate_folder,
    products_skipped_duplicate_id,
    products_skipped_missing_info,
    product_data,   \* the product of the latest loop iteration
    gets            \* the HTTP GETs made for that product, in order

resolver_vars ==
    <<image_url, srcset_str, pc, candidates, parse_exc, best_url, result, raised,
      repeated, earlier>>

disk_vars == <<fs_base, fs_folders, fs_info, fs_images>>

counter_vars ==
    <<products_added, products_skipped_duplicate_folder,
      products_skipped_duplicate_id, products_skipped_missing_info>>

local_vars ==
    <<site_type, after_reset, n_containers, index, processed_product_ids, counter_vars,
      product_data, gets>>

driver_vars ==
    <<processed_product_folders, disk_vars, dpc, returned, local_vars>>

vars == <<resolver_vars, driver_vars>>

\* no call of get_original_image_url is remembered
NoCall == [made |-> FALSE]

\* extract_product_info has not been called
DriverIdle ==
    /\ processed_product_folders = {}
    /\ fs_base = FALSE
    /\ fs_folders = {}
    /\ fs_info = <<>>
    /\ fs_images = {}
    /\ dpc = "idle"
    /\ returned = "never"
    /\ site_type = "default"
    /\ after_reset = FALSE
    /\ n_containers = 0
    /\ index = 0
    /\ processed_product_ids = {}
    /\ products_added = 0
    /\ products_skipped_duplicate_folder = 0
    /\ products_skipped_duplicate_id = 0
    /\ products_skipped_missing_info = 0
    /\ product_data = FreshProductData
    /\ gets = <<>>

\* get_original_image_url has not been called
ResolverIdle ==
    /\ image_url = None
    /\ srcset_str = None
    /\ pc = "ready"
    /\ candidates = <<>>
    /\ parse_exc = "none"
    /\ best_url = None
    /\ result = None
    /\ raised = FALSE
    /\ repeated = FALSE
    /\ earlier = NoCall

----------------------------------------------------------------------------
(* The calls of get_original_image_url *)

Init ==
    /\ image_url \in SrcInputs
    /\ srcset_str \in SrcsetInputs
    /\ pc = "ready"
    /\ candidates = <<>>
    /\ parse_exc = "none"
    /\ best_url = None
    /\ result = None
    /\ raised = FALSE
    /\ repeated = FALSE
    /\ earlier = NoCall
    /\ DriverIdle

\* the call r of get_original_image_url(src, srcset) recorded
Recorded(src, srcset, r) ==
    /\ image_url' = src
    /\ srcset_str' = srcset
    /\ candidates' = r.candidates
    /\ parse_exc' = r.exc
    /\ best_url' = r.best_url
    /\ result' = r.ret
    /\ raised' = r.raised
    /\ pc' = "done"
    /\ UNCHANGED driver_vars

\* the result of the call before is kept for the next call with that srcset
Returns_Cached(src, srcset) ==
    Recorded(src, srcset,
             IF pc = "done" /\ srcset = srcset_str
             THEN [GetOriginalImageUrl(src, srcset) EXCEPT !.ret = result]
             ELSE GetOriginalImageUrl(src, srcset))

\* the effect of get_original_image_url(src, srcset)
Returns(src, srcset) == Recorded(src, srcset, GetOriginalImageUrl(src, srcset))

\* the first call, on the arguments drawn
Call ==
    /\ pc = "ready"
    /\ Returns(image_url, srcset_str)
    /\ repeated' = FALSE
    /\ UNCHANGED earlier

\* a further call for the same srcset with another src
CallWithSrc(src) ==
    /\ pc = "done"
    /\ src # image_url
    /\ repeated' = TRUE
    /\ Returns(src, srcset_str)
    /\ UNCHANGED earlier

\* a further call for the same src with no srcset attribute
CallWithoutSrcset ==
    /\ pc = "done"
    /\ srcset_str # None
    /\ repeated' = TRUE
    /\ Returns(image_url, None)
    /\ UNCHANGED earlier

Next ==
    \/ Call
    \/ \E src \in SrcInputs : CallWithSrc(src)
    \/ CallWithoutSrcset

Spec == Init /\ [][Next]_vars

TypeOK ==
    /\ pc \in {"ready", "done"}
    /\ raised \in BOOLEAN
    /\ repeated \in BOOLEAN
    /\ parse_exc \in {"none", "ValueError"}

----------------------------------------------------------------------------
(* The calls of extract_product_info and reset_folder_tracking *)

\* "Big_Lamp"
FolderBigLamp == <<"B", "i", "g", "_", "L", "a", "m", "p">>

\* the program starts on a disk without "products", or on one where an
\* earlier run of the program left "products" with the folders in it
DriverInit ==
    /\ ResolverIdle
    /\ processed_product_folders = {}
    /\ \/ fs_base = FALSE /\ fs_folders = {}
       \/ fs_base = TRUE /\ fs_folders \in {{}, {FolderBigLamp}}
    /\ fs_info = <<>>
    /\ fs_images = {}
    /\ dpc = "idle"
    /\ returned = "never"
    /\ site_type = "default"
    /\ after_reset = FALSE
    /\ n_containers = 0
    /\ index = 0
    /\ processed_product_ids = {}
    /\ products_added = 0
    /\ products_skipped_duplicate_folder = 0
    /\ products_skipped_duplicate_id = 0
    /\ products_skipped_missing_info = 0
    /\ product_data = FreshProductData
    /\ gets = <<>>

\* the locals of a call that returns before its loop
NoLoop ==
    /\ dpc' = "idle"
    /\ n_containers' = 0
    /\ index' = 0
    /\ processed_product_ids' = {}
    /\ products_added' = 0
    /\ products_skipped_duplicate_folder' = 0
    /\ products_skipped_duplicate_id' = 0
    /\ products_skipped_missing_info' = 0
    /\ product_data' = FreshProductData
    /\ gets' = <<>>

\* the folders on disk are not merged into the set
CheckExistingFolders_Skipped ==
    processed_product_folders' = processed_product_folders

\* check_existing_folders("products"), called once the directory exists
CheckExistingFolders ==
    processed_product_folders' = processed_product_folders \cup fs_folders

\* the empty-document test comes after the directory is made and scanned
EmptyDocument_AfterScan ==
    /\ fs_base' = TRUE
    /\ CheckExistingFolders

\* the return of line 97: nothing was made or scanned
EmptyDocument == UNCHANGED <<fs_base, processed_product_folders>>

\* the folders are scanned without "products" being made
MakeBaseAndScan_NoDirectory ==
    /\ UNCHANGED fs_base
    /\ CheckExistingFolders

\* os.makedirs("products", exist_ok=True) and check_existing_folders
MakeBaseAndScan ==
    /\ fs_base' = TRUE
    /\ CheckExistingFolders

\* extract_product_info(html_content, st) up to its loop; the document is
\* empty or holds n containers for st
BeginExtract(empty, st, n) ==
    /\ dpc = "idle"
    /\ site_type' = st
    /\ after_reset' = (returned = "reset")
    /\ UNCHANGED <<resolver_vars, fs_folders, fs_info, fs_images>>
    /\ IF empty
       THEN /\ returned' = "empty_html"
            /\ NoLoop
            /\ EmptyDocument
       ELSE /\ MakeBaseAndScan
            /\ IF st \notin {"default", "woodmart"}
               THEN returned' = "unknown_site_type" /\ NoLoop
               ELSE IF n = 0
               THEN returned' = "no_containers" /\ NoLoop
               ELSE /\ returned' = "running"
                    /\ dpc' = "loop"
                    /\ n_containers' = n
                    /\ index' = 0
                    /\ processed_product_ids' = {}
                    /\ products_added' = 0
                    /\ products_skipped_duplicate_folder' = 0
                    /\ products_skipped_duplicate_id' = 0
                    /\ products_skipped_missing_info' = 0
                    /\ product_data' = FreshProductData
                    /\ gets' = <<>>

\* `continue': the loop goes to the next container
Continue(d, status) ==
    /\ product_data' = [d EXCEPT !.status = status]
    /\ index' = index + 1
    /\ gets' = <<>>
    /\ UNCHANGED <<dpc, returned, site_type, after_reset, n_containers, disk_vars,
                   processed_product_folders, products_added, resolver_vars>>

\* a container whose ID was seen is processed like any other
SeenId_Never(id) == FALSE

\* id in processed_product_ids
SeenId(id) == id \in processed_product_ids

SkipDuplicateId(id) ==
    /\ products_skipped_duplicate_id' = products_skipped_duplicate_id + 1
    /\ Continue([FreshProductData EXCEPT !.id = id], "duplicate_id")
    /\ UNCHANGED <<processed_product_ids, products_skipped_duplicate_folder,
                   products_skipped_missing_info>>

\* the container is passed over without being counted
SkipMissingInfo_Uncounted(d) ==
    /\ Continue(d, "missing_info")
    /\ UNCHANGED <<products_skipped_duplicate_folder,
                   products_skipped_duplicate_id, products_skipped_missing_info>>

SkipMissingInfo(d) ==
    /\ products_skipped_missing_info' = products_skipped_missing_info + 1
    /\ Continue(d, "missing_info")
    /\ UNCHANGED <<products_skipped_duplicate_folder,
                   products_skipped_duplicate_id>>

SkipDuplicateFolder(d, folder) ==
    /\ products_skipped_duplicate_folder' = products_skipped_duplicate_folder + 1
    /\ Continue([d EXCEPT !.folder = folder], "duplicate_folder")
    /\ UNCHANGED <<products_skipped_duplicate_id, products_skipped_missing_info>>

\* the end of a loop iteration that did not `continue'
Added ==
    /\ products_added' = products_added + 1
    /\ index' = index + 1
    /\ dpc' = "loop"

\* the folder is made without its name being added to the set
Tracked_Forgotten(folder) == processed_product_folders

\* processed_product_folders.add(product_folder_name)
Tracked(folder) == processed_product_folders \cup {folder}

\* the folder made and info_product.txt written; the download is next when
\* there is an image URL
CreateProduct(d, folder) ==
    /\ processed_product_folders' = Tracked(folder)
    /\ fs_folders' = fs_folders \cup {folder}
    /\ fs_info' = [f \in DOMAIN fs_info \cup {folder} |->
                     IF f = folder THEN InfoFile(d) ELSE fs_info[f]]
    /\ gets' = <<>>
    /\ IF Truthy(d.image_url)
       THEN /\ dpc' = "download"
            /\ product_data' = [d EXCEPT !.folder = folder, !.status = "written"]
            /\ UNCHANGED <<index, products_added>>
       ELSE /\ Added
            /\ product_data' = [d EXCEPT !.folder = folder, !.status = "added"]
    /\ UNCHANGED <<fs_base, fs_images, returned, site_type, after_reset, n_containers,
                   resolver_vars, products_skipped_duplicate_folder,
                   products_skipped_duplicate_id, products_skipped_missing_info>>

\* the folder check passes every product
KnownFolder_Never(folder) == FALSE

\* product_folder_name in processed_product_folders
KnownFolder(folder) == folder \in processed_product_folders

FolderCheck(d, folder) ==
    IF KnownFolder(folder) THEN SkipDuplicateFolder(d, folder)
    ELSE CreateProduct(d, folder)

AfterIdCheck(d) ==
    IF MissingInfo(d) THEN SkipMissingInfo(d)
    ELSE FolderCheck(d, FolderName(d))

Iteration(c, id) ==
    IF SeenId(id) THEN SkipDuplicateId(id)
    ELSE /\ processed_product_ids' = processed_product_ids \cup {id}
         /\ AfterIdCheck(Extracted(c, id))

\* one loop iteration, on the container c, up to the first HTTP request
ProcessContainer(c) ==
    /\ dpc = "loop"
    /\ index < n_containers
    /\ Iteration(c, ProductId(c, site_type, index))

\* the image files once the request for url ended with outcome
Saved(url, outcome) ==
    IF outcome = "ok" THEN fs_images \cup {<<product_data.folder, url>>}
    ELSE fs_images

\* requests.get of the resolved URL and the saving of the response
Download(outcome) ==
    /\ dpc = "download"
    /\ gets' = Append(gets, [url |-> product_data.image_url, outcome |-> outcome])
    /\ fs_images' = Saved(product_data.image_url, outcome)
    /\ IF WantsFallback(product_data, outcome)
       THEN /\ dpc' = "fallback"
            /\ UNCHANGED <<index, products_added, product_data>>
       ELSE /\ Added
            /\ product_data' = [product_data EXCEPT !.status = "added"]
    /\ UNCHANGED <<resolver_vars, processed_product_folders, fs_base, fs_folders,
                   fs_info, returned, site_type, after_reset, n_containers,
                   processed_product_ids,
                   products_skipped_duplicate_folder,
                   products_skipped_duplicate_id, products_skipped_missing_info>>

\* requests.get of the raw src inside the except clause; an exception that
\* is no RequestException leaves extract_product_info
FallbackDownload(outcome) ==
    /\ dpc = "fallback"
    /\ gets' = Append(gets, [url |-> product_data.raw_image_src,
                             outcome |-> outcome])
    /\ fs_images' = Saved(product_data.raw_image_src, outcome)
    /\ IF outcome = "other_error"
       THEN /\ dpc' = "idle"
            /\ returned' = "raised"
            /\ UNCHANGED <<index, products_added, product_data>>
       ELSE /\ Added
            /\ product_data' = [product_data EXCEPT !.status = "added"]
            /\ UNCHANGED returned
    /\ UNCHANGED <<resolver_vars, processed_product_folders, fs_base, fs_folders,
                   fs_info, site_type, after_reset, n_containers,
                   processed_product_ids,
                   products_skipped_duplicate_folder,
                   products_skipped_duplicate_id, products_skipped_missing_info>>

\* the loop is over: the summary is printed and the call returns
EndExtract ==
    /\ dpc = "loop"
    /\ index = n_containers
    /\ dpc' = "idle"
    /\ returned' = "summary"
    /\ UNCHANGED <<resolver_vars, processed_product_folders, disk_vars,
                   local_vars>>

\* only the names without a folder on disk are dropped
Cleared_KeepsDisk(folders) == folders \cap fs_folders

\* processed_product_folders.clear()
Cleared(folders) == {}

\* reset_folder_tracking()
ResetFolderTracking ==
    /\ dpc = "idle"
    /\ processed_product_folders' = Cleared(processed_product_folders)
    /\ returned' = "reset"
    /\ UNCHANGED <<resolver_vars, disk_vars, dpc, local_vars>>

DriverNext ==
    \/ \E empty \in BOOLEAN, st \in SiteTypes, n \in 0..MaxContainers :
         BeginExtract(empty, st, n)
    \/ \E c \in Containers : ProcessContainer(c)
    \/ \E outcome \in Outcomes : Download(outcome)
    \/ \E outcome \in Outcomes : FallbackDownload(outcome)
    \/ EndExtract
    \/ ResetFolderTracking

DriverSpec == DriverInit /\ [][DriverNext]_vars

----------------------------------------------------------------------------
(* get_original_image_url called by any client of the module, between calls
   of extract_product_info and reset_folder_tracking *)

ClientSrcs == {None, SrcPlain, SrcResized}

ClientSrcsets == {None, EntryOriginal, EntryBadWidth}

ClientInit == DriverInit

\* the first call is remembered; others notes a later call on other arguments
Remember(src, srcset) ==
    earlier' =
      IF pc = "ready"
      THEN [made |-> TRUE, src |-> src, srcset |-> srcset,
            ret |-> GetOriginalImageUrl(src, srcset).ret, others |-> FALSE]
      ELSE IF earlier.src # src \/ earlier.srcset # srcset
      THEN [earlier EXCEPT !.others = TRUE]
      ELSE earlier

\* get_original_image_url(src, srcset), called outside extract_product_info
ClientCall(src, srcset) ==
    /\ dpc = "idle"
    /\ Returns(src, srcset)
    /\ repeated' = (pc = "done")
    /\ Remember(src, srcset)

\* extract_product_info on a document that is empty or has no container for st
ExtractNothing(empty, st) == BeginExtract(empty, st, 0)

ClientNext ==
    \/ \E src \in ClientSrcs, srcset \in ClientSrcsets : ClientCall(src, srcset)
    \/ \E empty \in BOOLEAN, st \in SiteTypes : ExtractNothing(empty, st)
    \/ ResetFolderTracking

ClientSpec == ClientInit /\ [][ClientNext]_vars

----------------------------------------------------------------------------
(* What the claims are stated with *)

Done == pc = "done"

\* the call parsed its srcset to the end
ParsedOk == Done /\ parse_exc = "none"

\* the positions of the candidates the filename filter keeps
NonResized == {i \in DOMAIN candidates : ~LooksResized(candidates[i].url)}

\* the positions of greatest width among the positions sel
Widest(sel) ==
    {i \in sel : \A j \in sel : candidates[j].width <= candidates[i].width}

\* cleaned is url with one resize suffix taken out from before its extension
\* (and the final newline that `$' skips, when there is one)
SuffixRemoved(url, cleaned) ==
    \E nl \in {<<>>, <<"\n">>} :
      \E b \in 0..(Len(cleaned) - 1) :
        LET n == Len(url) - Len(cleaned) - Len(nl)
        IN  /\ n >= 1
            /\ cleaned[b + 1] = "."
            /\ IsLetterRun(Tail_(cleaned, b + 2), 3, 5)
            /\ IsResizeSuffix(SubSeq(url, b + 1, b + n))
            /\ url = SubSeq(cleaned, 1, b) \o SubSeq(url, b + 1, b + n)
                        \o Tail_(cleaned, b + 1) \o nl

\* the whitespace-separated tokens of each comma-separated entry
EntryTokens(srcset) ==
    LET es == SplitComma(srcset)
    IN  [i \in DOMAIN es |-> SplitWhitespace(Strip(es[i]))]

\* two tokens, the second ending in w with no integer before the w
IsBadWidthEntry(parts) ==
    /\ Len(parts) = 2
    /\ EndsWithW(parts[2])
    /\ ~IntAccepts(SubSeq(parts[2], 1, Len(parts[2]) - 1))

\* a bare URL, or a URL and an integer width
IsWellFormedEntry(parts) ==
    \/ Len(parts) = 1
    \/ /\ Len(parts) = 2
       /\ EndsWithW(parts[2])
       /\ IntAccepts(SubSeq(parts[2], 1, Len(parts[2]) - 1))

HasBadWidthEntry ==
    /\ Truthy(srcset_str)
    /\ \E i \in DOMAIN EntryTokens(srcset_str) :
          IsBadWidthEntry(EntryTokens(srcset_str)[i])

WellFormedUrls ==
    IF Truthy(srcset_str)
    THEN {EntryTokens(srcset_str)[i][1] :
            i \in {j \in DOMAIN EntryTokens(srcset_str) :
                      IsWellFormedEntry(EntryTokens(srcset_str)[j])}}
    ELSE {}

----------------------------------------------------------------------------
(* Claims *)

\* C1: when the srcset yields a candidate whose URL does not look resized,
\* the working URL is a widest member of the non-resized candidates, whatever
\* width the resized-looking candidates declare.
C1_NonResizedPreferred ==
    (ParsedOk /\ NonResized # {}) =>
        \E i \in Widest(NonResized) : best_url = candidates[i].url

\* a non-resized candidate was chosen over a strictly wider resized one
C1_Witness ==
    /\ ParsedOk
    /\ \E i \in NonResized :
          /\ best_url = candidates[i].url
          /\ \E j \in DOMAIN candidates \ NonResized :
                candidates[j].width > candidates[i].width

\* C2: when every candidate looks resized, the working URL is a widest
\* candidate of the whole list and the result is that URL with its resize
\* suffix stripped; "a-300x300.jpg 300w, a-800x800.jpg 800w" gives "a.jpg".
C2_AllResizedWidestStripped ==
    /\ (ParsedOk /\ candidates # <<>> /\ NonResized = {}) =>
          /\ \E i \in Widest(DOMAIN candidates) : best_url = candidates[i].url
          /\ SuffixRemoved(best_url, result)
    /\ (Done /\ srcset_str = JoinEntries(<<Entry300, Entry800>>)) =>
          result = <<"a", ".", "j", "p", "g">>

\* the 800w candidate of two resized ones was chosen and stripped
C2_Witness ==
    /\ Done
    /\ srcset_str = JoinEntries(<<Entry300, Entry800>>)
    /\ best_url = <<"a", "-", "8", "0", "0", "x", "8", "0", "0", ".", "j", "p", "g">>
    /\ result = <<"a", ".", "j", "p", "g">>

\* C3: with no srcset and a src, the result is src with its resize suffix
\* removed when src matches the cleaning pattern, and src itself otherwise.
C3_NoSrcsetCleansSrc ==
    /\ (Done /\ ~Truthy(srcset_str) /\ Truthy(image_url)) =>
          IF CleanSplits(image_url) # {}
          THEN SuffixRemoved(image_url, result)
          ELSE result = image_url
    /\ (Done /\ ~Truthy(srcset_str) /\ image_url = SrcResized) => result = SrcPlain
    /\ (Done /\ ~Truthy(srcset_str) /\ image_url = SrcPlain) => result = SrcPlain

\* "i-300x300.jpg" with no srcset came back as "i.jpg"
C3_Witness ==
    /\ Done
    /\ srcset_str = None
    /\ image_url = SrcResized
    /\ result = SrcPlain

\* C4: with src and srcset both None or empty, in any combination, the
\* call returns None.
C4_BothAbsentReturnsNone ==
    (Done /\ image_url \in {None, <<>>} /\ srcset_str \in {None, <<>>}) =>
        (result = None /\ ~raised)

\* the call with src "" and srcset None returned None
C4_Witness ==
    /\ Done
    /\ image_url = <<>>
    /\ srcset_str = None
    /\ result = None

\* C5: when parsing the srcset raises at some entry, the working URL is src:
\* no candidate parsed from the entries before it is used.
C5_ParseErrorAbandonsSrcset ==
    (Done /\ parse_exc # "none") => best_url = image_url

\* int() raised after candidates had been parsed, and src was used
C5_Witness ==
    /\ Done
    /\ parse_exc = "ValueError"
    /\ candidates # <<>>
    /\ Truthy(image_url)
    /\ best_url = image_url

\* C6 as stated: an entry whose width ends in w and is no integer is skipped
\* alone, and the working URL is selected from the well-formed entries of the
\* same srcset.
C6_BadWidthEntrySkipped ==
    (Done /\ HasBadWidthEntry /\ WellFormedUrls # {}) =>
        best_url \in WellFormedUrls

\* C6 amended: an entry whose width ends in w and is no integer makes the
\* parse of the whole srcset raise, and the call returns what it returns for
\* the same src with no srcset.
C6_BadWidthEntryAbortsParse ==
    (Done /\ HasBadWidthEntry) =>
        /\ parse_exc = "ValueError"
        /\ result = GetOriginalImageUrl(image_url, None).ret

\* a srcset with a bad width next to well-formed entries fell back to src
C6_Witness ==
    /\ Done
    /\ HasBadWidthEntry
    /\ WellFormedUrls # {}
    /\ parse_exc = "ValueError"
    /\ image_url = SrcResized
    /\ result = SrcPlain

\* C7: the call never raises to its caller: it returns a str or None, and
\* None when the srcset parse failed and src is None or empty.
C7_NeverRaises ==
    Done =>
        /\ ~raised
        /\ result # NoReturn
        /\ (parse_exc # "none" /\ ~Truthy(image_url)) => result = None

\* the parse failed with src empty and the call returned None
C7_Witness ==
    /\ Done
    /\ parse_exc = "ValueError"
    /\ image_url = <<>>
    /\ ~raised
    /\ result = None

\* C8: when the srcset parsed into at least one candidate, a further call
\* with the same srcset and another src returns the same URL.
C8_ResultIndependentOfSrc ==
    [][(ParsedOk /\ candidates # <<>> /\ pc' = "done" /\ srcset_str' = srcset_str)
          => result' = result]_vars

\* a second call was made with another src on a srcset that has candidates
C8_Witness ==
    /\ ParsedOk
    /\ repeated
    /\ candidates # <<>>
    /\ Truthy(srcset_str)
    /\ image_url = None

\* C9: when the srcset yields no candidate (None, empty, or ignored entries
\* only), the working URL is src and the result is that of the call with the
\* same src and no srcset.
C9_NoCandidateUsesSrc ==
    (ParsedOk /\ candidates = <<>>) =>
        /\ IF Truthy(image_url) THEN best_url = image_url ELSE ~Truthy(best_url)
        /\ result = GetOriginalImageUrl(image_url, None).ret

\* a srcset of ignored entries only left src to be cleaned and returned
C9_Witness ==
    /\ ParsedOk
    /\ Truthy(srcset_str)
    /\ candidates = <<>>
    /\ image_url = SrcResized
    /\ result = SrcPlain

\* C10: among several candidates of greatest width in the selected subset,
\* the one that comes first in the srcset is chosen.
C10_FirstOfEqualWidthWins ==
    (ParsedOk /\ candidates # <<>>) =>
        LET sel == IF NonResized # {} THEN NonResized ELSE DOMAIN candidates
            first == CHOOSE i \in Widest(sel) : \A j \in Widest(sel) : i <= j
        IN  best_url = candidates[first].url

\* two candidates of the selected subset tie with different URLs
C10_Witness ==
    /\ ParsedOk
    /\ candidates # <<>>
    /\ LET sel == IF NonResized # {} THEN NonResized ELSE DOMAIN candidates
       IN  \E i, j \in Widest(sel) :
              /\ i < j
              /\ candidates[i].url # candidates[j].url
              /\ best_url = candidates[i].url

\* the positions of the entries that yield a candidate
WellFormedEntries ==
    {i \in DOMAIN EntryTokens(srcset_str) :
        IsWellFormedEntry(EntryTokens(srcset_str)[i])}

\* the positions of the entries of one token
BareEntries ==
    {i \in DOMAIN EntryTokens(srcset_str) : Len(EntryTokens(srcset_str)[i]) = 1}

\* the positions of the entries lines 32-38 pass over: three tokens or
\* more, or two tokens with the second not ending in w
IgnoredEntries ==
    {i \in DOMAIN EntryTokens(srcset_str) :
        \/ Len(EntryTokens(srcset_str)[i]) >= 3
        \/ /\ Len(EntryTokens(srcset_str)[i]) = 2
           /\ ~EndsWithW(EntryTokens(srcset_str)[i][2])}

\* the subset the selection is made in
Selected == IF NonResized # {} THEN NonResized ELSE DOMAIN candidates

\* C11: an entry of one token yields a candidate of width 0; the srcset
\* "c.jpg" alone returns "c.jpg"; and where the selected subset holds a
\* candidate of positive width, the working URL is that of such a candidate.
C11_BareEntryHasWidthZero ==
    /\ (ParsedOk /\ Truthy(srcset_str)) =>
          \A i \in BareEntries :
             \E k \in DOMAIN candidates :
                candidates[k] = [url |-> EntryTokens(srcset_str)[i][1], width |-> 0]
    /\ (Done /\ srcset_str = EntryBare) => result = EntryBare
    /\ (ParsedOk /\ \E j \in Selected : candidates[j].width > 0) =>
          \E j \in Selected : candidates[j].width > 0 /\ best_url = candidates[j].url

\* a bare entry and an entry of positive width met in the selected subset
C11_Witness ==
    /\ ParsedOk
    /\ Truthy(srcset_str)
    /\ BareEntries # {}
    /\ \E k, j \in Selected :
          /\ candidates[k].width = 0
          /\ candidates[j].width > 0
          /\ best_url = candidates[j].url
          /\ best_url # candidates[k].url

\* url ends in two resize suffixes before its extension
HasTwoSuffixes(url) ==
    \E sp \in CleanSplits(url) :
      \E b \in 0..(sp[1] - 1) : IsResizeSuffix(SubSeq(url, b + 1, sp[1]))

\* C12: a working URL with two resize suffixes in sequence loses the last
\* one only, and the URL returned still matches the cleaning pattern.
C12_CleanedOnce ==
    (Done /\ Truthy(best_url) /\ HasTwoSuffixes(best_url)) =>
        /\ SuffixRemoved(best_url, result)
        /\ CleanSplits(result) # {}

\* "i-100x100-200x200.jpg" came back as "i-100x100.jpg"
C12_Witness ==
    /\ Done
    /\ best_url = SrcTwoSuffixes
    /\ result = <<"i", "-", "1", "0", "0", "x", "1", "0", "0", ".", "j", "p", "g">>

\* C13: None and the empty string are interchangeable in both arguments:
\* the call returns the same with src None as with src "", and the same
\* with srcset None as with srcset "".
C13_NoneAndEmptyAlike ==
    Done =>
        /\ image_url \in {None, <<>>} =>
              \A src \in {None, <<>>} :
                 GetOriginalImageUrl(src, srcset_str).ret = result
        /\ srcset_str \in {None, <<>>} =>
              \A srcset \in {None, <<>>} :
                 GetOriginalImageUrl(image_url, srcset).ret = result

\* a call with src "" whose srcset failed to parse, where src decides
C13_Witness ==
    /\ Done
    /\ image_url = <<>>
    /\ parse_exc = "ValueError"
    /\ result = None

\* C14: a URL the cleaning pattern does not match is returned unchanged, so
\* a returned URL that no longer matches, passed back with no srcset, comes
\* back as it is.
C14_CleaningIdempotent ==
    Done =>
        /\ (Truthy(best_url) /\ CleanSplits(best_url) = {}) => result = best_url
        /\ (Truthy(result) /\ ~raised /\ CleanSplits(result) = {}) =>
              GetOriginalImageUrl(result, None).ret = result

\* a URL was cleaned into one that matches no more
C14_Witness ==
    /\ Done
    /\ best_url = SrcResized
    /\ result = SrcPlain
    /\ CleanSplits(result) = {}

\* C20: an entry of three tokens or more, or of two tokens with the second
\* not ending in w, yields no candidate and raises nothing: the candidates
\* are those of the well-formed entries, in order.
C20_OtherEntriesIgnored ==
    (Done /\ Truthy(srcset_str) /\ ~HasBadWidthEntry) =>
        /\ parse_exc = "none"
        /\ Len(candidates) = Cardinality(WellFormedEntries)
        /\ \A i \in WellFormedEntries :
              candidates[Cardinality({j \in WellFormedEntries : j <= i})].url
                  = EntryTokens(srcset_str)[i][1]

\* an ignored entry came first and the entry after it was still parsed
C20_Witness ==
    /\ ParsedOk
    /\ Truthy(srcset_str)
    /\ 1 \in IgnoredEntries
    /\ Len(EntryTokens(srcset_str)[1]) >= 3
    /\ 2 \in WellFormedEntries
    /\ Len(candidates) = 1

----------------------------------------------------------------------------
(* What the claims about extract_product_info are stated with *)

\* the step is one loop iteration up to its `continue', its first request or
\* its end; the container it handled is the one product_data' describes
IterationStep ==
    /\ dpc = "loop"
    /\ index < n_containers
    /\ (index' = index + 1 \/ dpc' = "download")

\* the step made no folder, wrote no file and left no download to make
NothingMade ==
    /\ UNCHANGED disk_vars
    /\ gets' = <<>>
    /\ dpc' = "loop"
    /\ index' = index + 1

\* the folder name line 245 gives the product d
SanitizedFolderName(d) ==
    SanitizeFilename(IF d.name # NA THEN d.name
                     ELSE <<"p", "r", "o", "d", "u", "c", "t", "_">> \o d.id)

\* the container of the step passes the duplicate-ID and missing-info checks
PassesIdAndInfoChecks ==
    /\ IterationStep
    /\ product_data'.id \notin processed_product_ids
    /\ ~(product_data'.name = NA /\ StartsWithTemp(product_data'.id))

\* info_product.txt of the latest product holds its name, its ID and its
\* image link: the resolved URL, or "N/A" when there is none
InfoWritten ==
    /\ product_data.folder \in DOMAIN fs_info
    /\ product_data.folder \in fs_folders
    /\ fs_info[product_data.folder] =
         [name |-> product_data.name, id |-> product_data.id,
          image_link |-> IF product_data.image_url = None THEN NA
                         ELSE product_data.image_url]

\* every request for the latest product has been made
RequestsOver == dpc \notin {"download", "fallback"}

\* the request for the resolved URL failed with a request error
FirstGetFailed ==
    /\ gets # <<>>
    /\ gets[1].url = product_data.image_url
    /\ gets[1].outcome = "request_error"

----------------------------------------------------------------------------
\* C15: within one call of extract_product_info the ID set starts empty, the
\* ID of every container the loop handles is in the set afterwards, and a
\* container whose ID is in the set already is skipped: no folder, no
\* metadata file, no download, the duplicate-ID counter one higher and no
\* other counter or set changed.  So at most one container per ID is
\* processed.
C15_OneContainerPerId ==
    [][/\ (dpc = "idle" /\ dpc' = "loop") => processed_product_ids' = {}
       /\ IterationStep =>
            /\ product_data'.id \in processed_product_ids'
            /\ (product_data'.id \in processed_product_ids) =>
                 /\ NothingMade
                 /\ products_skipped_duplicate_id'
                      = products_skipped_duplicate_id + 1
                 /\ UNCHANGED <<products_added, products_skipped_duplicate_folder,
                                products_skipped_missing_info,
                                processed_product_ids,
                                processed_product_folders>>
            /\ (product_data'.id \notin processed_product_ids) =>
                 /\ processed_product_ids'
                      = processed_product_ids \cup {product_data'.id}
                 /\ UNCHANGED products_skipped_duplicate_id
      ]_vars

\* the second container of a call carried the ID of the first, which was
\* added, and was skipped
C15_Witness ==
    /\ dpc = "loop"
    /\ index = 2
    /\ products_added = 1
    /\ products_skipped_duplicate_id = 1
    /\ product_data.id = Id11
    /\ processed_product_ids = {Id11}
    /\ Cardinality(DOMAIN fs_info) = 1

\* C16: a product that passes the ID and missing-info checks and whose
\* sanitized folder name is in processed_product_folders is skipped: nothing
\* is written, no download is left to make, the duplicate-folder counter is
\* one higher; and the set loses no name where a call of
\* extract_product_info begins or ends, so the names of earlier calls are
\* there for later ones.
C16_KnownFolderSkipped ==
    [][/\ (/\ PassesIdAndInfoChecks
           /\ SanitizedFolderName(product_data') \in processed_product_folders)
          => /\ NothingMade
             /\ products_skipped_duplicate_folder'
                  = products_skipped_duplicate_folder + 1
             /\ UNCHANGED <<products_added, processed_product_folders>>
       /\ ((dpc = "idle") # (dpc' = "idle"))
          => processed_product_folders \subseteq processed_product_folders'
      ]_vars

\* the first container of a woodmart call, named "So?ap", was skipped for the
\* folder "Soap" that an earlier call made for the product "Soap"
C16_Witness ==
    /\ dpc = "loop"
    /\ site_type = "woodmart"
    /\ index = 1
    /\ products_skipped_duplicate_folder = 1
    /\ product_data.name = NameSoapQ
    /\ product_data.folder = NameSoap
    /\ NameSoap \in DOMAIN fs_info
    /\ fs_info[NameSoap].name = NameSoap

\* C17 (as stated): once the requests for a product are over, a failed
\* request for the resolved URL has been followed by one request for the raw
\* src.
C17_FailedGetAlwaysRetried ==
    (RequestsOver /\ FirstGetFailed)
      => (Len(gets) = 2 /\ gets[2].url = product_data.raw_image_src)

\* C17 (amended): once the requests for a product are over, a request for
\* the resolved URL that failed with a request error has been followed by
\* one request for the raw src when the raw src is present and differs from
\* the resolved URL, and by no request otherwise.
C17_FailedGetRetriedWhenRawDiffers ==
    (RequestsOver /\ FirstGetFailed)
      => IF Truthy(product_data.raw_image_src)
              /\ product_data.raw_image_src # product_data.image_url
         THEN Len(gets) = 2 /\ gets[2].url = product_data.raw_image_src
         ELSE Len(gets) = 1

\* the resolved URL failed and the raw src, another URL, was requested
C17_Witness ==
    /\ RequestsOver
    /\ FirstGetFailed
    /\ Len(gets) = 2
    /\ gets[2].url = SrcResized
    /\ gets[1].url = SrcPlain

\* C18: every product that passes the duplicate-ID, missing-info and
\* duplicate-folder checks has its metadata file written in that step, before
\* any request is made; the file is there while and after the requests are
\* made, however they end, and for a product without image URL; its image
\* link is the resolved URL, or "N/A" when there is none.
C18_MetadataBeforeDownload ==
    /\ []((dpc \in {"download", "fallback"} \/ gets # <<>>
             \/ product_data.status = "added") => InfoWritten)
    /\ [][(/\ PassesIdAndInfoChecks
           /\ SanitizedFolderName(product_data')
                \notin processed_product_folders)
          => (InfoWritten' /\ gets' = <<>>)
         ]_vars

\* a product whose two requests both failed has its metadata file
C18_Witness ==
    /\ dpc = "loop"
    /\ Len(gets) = 2
    /\ gets[1].outcome = "request_error"
    /\ gets[2].outcome = "request_error"
    /\ InfoWritten
    /\ fs_info[product_data.folder].image_link = SrcPlain

----------------------------------------------------------------------------
\* C21: once reset_folder_tracking has returned, and until the next call of
\* extract_product_info, processed_product_folders is empty, whatever names
\* it held and whatever folders are on disk.
C21_ResetEmptiesTracking ==
    returned = "reset" => processed_product_folders = {}

\* tracking was reset after products had been written, their folders still
\* on disk
C21_Witness ==
    /\ returned = "reset"
    /\ processed_product_folders = {}
    /\ NameSoap \in DOMAIN fs_info
    /\ FolderBigLamp \in fs_folders

----------------------------------------------------------------------------
\* url ends in -<digits>x<digits>@<digit>x.<ext> with an extension of 3 to 5
\* letters, or in -<digits>x<digits>.<ext> with one of 5 letters
EndsInUnfilteredSuffix(url) ==
    \E k \in {k \in 1..Len(url) : url[k] = "."} :
      \E i \in {i \in 1..k : url[i] = "-"} :
        \/ /\ IsLetterRun(Tail_(url, k + 1), 3, 5)
           /\ k - i >= 7
           /\ IsDimensions(SubSeq(url, i, k - 4))
           /\ url[k - 3] = "@"
           /\ url[k - 2] \in Digits
           /\ url[k - 1] = "x"
        \/ /\ IsLetterRun(Tail_(url, k + 1), 5, 5)
           /\ IsDimensions(SubSeq(url, i, k - 1))

\* C22: a srcset candidate whose URL ends in a retina suffix or in a plain
\* resize suffix before a 5-letter extension passes the filename filter as
\* non-resized, so no resize-looking candidate is selected while it is
\* there; and when it is the one selected, the cleaning step takes its
\* suffix out: the URL returned is not the URL selected.
C22_FilterAndCleaningDisagree ==
    ParsedOk =>
      \A i \in DOMAIN candidates :
        EndsInUnfilteredSuffix(candidates[i].url) =>
          /\ i \in NonResized
          /\ ~LooksResized(best_url)
          /\ (best_url = candidates[i].url) =>
               (result # best_url /\ SuffixRemoved(best_url, result))

\* a retina candidate was selected ahead of a wider resize-looking one and
\* came back without its suffix
C22_Witness ==
    /\ ParsedOk
    /\ \E i, j \in DOMAIN candidates :
          /\ EndsInUnfilteredSuffix(candidates[i].url)
          /\ best_url = candidates[i].url
          /\ LooksResized(candidates[j].url)
          /\ candidates[j].width > candidates[i].width
    /\ result # best_url
    /\ result = <<"a", ".", "j", "p", "g">>

----------------------------------------------------------------------------
\* C23: a call of extract_product_info that gets past the empty-document
\* test adds the names of the folders on disk to processed_product_folders
\* and removes none, whether or not tracking was reset before; so while the
\* loop runs every folder on disk is tracked, and a product whose folder is
\* on disk is skipped as a duplicate folder.
C23_RepopulatedFromDisk ==
    /\ [](dpc # "idle" => fs_folders \subseteq processed_product_folders)
    /\ [][/\ (dpc = "idle" /\ returned' \notin {"reset", "empty_html"})
              => (processed_product_folders'
                    = processed_product_folders \cup fs_folders)
          /\ (/\ PassesIdAndInfoChecks
              /\ SanitizedFolderName(product_data') \in fs_folders)
              => (/\ NothingMade
                  /\ products_skipped_duplicate_folder'
                       = products_skipped_duplicate_folder + 1)
         ]_vars

\* in the first call after a reset, the first container was skipped for the
\* folder "Soap" that an earlier call had written
C23_Witness ==
    /\ after_reset
    /\ dpc = "loop"
    /\ index = 1
    /\ products_skipped_duplicate_folder = 1
    /\ product_data.folder = NameSoap
    /\ NameSoap \in DOMAIN fs_info
    /\ NameSoap \in processed_product_folders

----------------------------------------------------------------------------
\* the names of the folders extract_product_info has created: the ones that
\* hold an info_product.txt
CreatedFolders == DOMAIN fs_info

\* C24 (as stated): in every reachable state the name of every folder that
\* extract_product_info created is in processed_product_folders.
C24_CreatedFoldersAlwaysTracked ==
    CreatedFolders \subseteq processed_product_folders

\* C24 (amended): the name of every folder that extract_product_info created
\* is in processed_product_folders while a call runs and after a call that
\* got past the empty-document test, until reset_folder_tracking is called;
\* every step but a reset keeps the names the set holds, and the step that
\* creates a folder leaves its name in the set.
C24_TrackedUntilReset ==
    /\ [](returned \notin {"reset", "empty_html"}
            => CreatedFolders \subseteq processed_product_folders)
    /\ [][/\ (returned' # "reset")
              => processed_product_folders \subseteq processed_product_folders'
          /\ (fs_folders' \ fs_folders) \subseteq processed_product_folders'
         ]_vars

\* a call that began after a reset has ended; the folder it created and the
\* one created before the reset are both tracked
C24_Witness ==
    /\ after_reset
    /\ returned = "summary"
    /\ products_added = 1
    /\ Cardinality(CreatedFolders) = 2
    /\ CreatedFolders \subseteq processed_product_folders

----------------------------------------------------------------------------
\* the containers the four counters account for
Counted ==
    products_added + products_skipped_duplicate_folder
      + products_skipped_duplicate_id + products_skipped_missing_info

\* C25: when a call of extract_product_info has run its loop to the end, the
\* four counters add up to the number of containers found; while the loop
\* runs they add up to the number of containers it has finished with.
C25_CountersPartitionContainers ==
    /\ (returned = "summary") => (Counted = n_containers)
    /\ (dpc # "idle") => (Counted = index)

\* a call on two containers ended with one skipped for missing info and one
\* for its folder
C25_Witness ==
    /\ returned = "summary"
    /\ n_containers = 2
    /\ products_skipped_missing_info = 1
    /\ products_skipped_duplicate_folder = 1
    /\ products_added = 0

----------------------------------------------------------------------------
\* C26: at most two GETs are made for a product.  The first is for the
\* resolved URL; a second one is made only after the first failed with a
\* request error, with the raw src present and different from the resolved
\* URL, and it is for the raw src.  With the raw src absent or equal to the
\* resolved URL there is one GET at most.
C26_AtMostTwoGets ==
    /\ Len(gets) <= 2
    /\ (gets # <<>>) =>
         /\ Truthy(product_data.image_url)
         /\ gets[1].url = product_data.image_url
    /\ (Len(gets) = 2 \/ dpc = "fallback") =>
         /\ gets[1].outcome = "request_error"
         /\ Truthy(product_data.raw_image_src)
         /\ product_data.raw_image_src # product_data.image_url
    /\ (Len(gets) = 2) => (gets[2].url = product_data.raw_image_src)
    /\ (\/ product_data.raw_image_src = None
        \/ product_data.raw_image_src = product_data.image_url)
       => (Len(gets) <= 1 /\ dpc # "fallback")

\* the only request for a product whose img tag has a srcset and no src
\* failed, and the product was counted
C26_Witness ==
    /\ RequestsOver
    /\ product_data.status = "added"
    /\ product_data.raw_image_src = None
    /\ Len(gets) = 1
    /\ gets[1].outcome = "request_error"

----------------------------------------------------------------------------
\* the latest request for the latest product failed and no retry is to
\* come; no call of reset_folder_tracking has been made since
DownloadFailed ==
    /\ gets # <<>>
    /\ gets[Len(gets)].outcome # "ok"
    /\ dpc # "fallback"
    /\ returned # "reset"

\* C27 (as stated): after a failed download, the fallback included, the call
\* has not been left by an exception: the loop goes on or has reached its
\* summary; the product is counted as added, its folder and metadata file
\* are there and its folder name is tracked.
C27_FailedDownloadKeepsRun ==
    DownloadFailed =>
      /\ returned \in {"running", "summary"}
      /\ product_data.status = "added"
      /\ Counted = index
      /\ InfoWritten
      /\ product_data.folder \in processed_product_folders

----------------------------------------------------------------------------
\* C28: a container with no name and a generated TEMP_ ID is skipped for
\* missing info: the disk is left as it was (no folder, no metadata file, no
\* image), no request is made, processed_product_folders is unchanged and
\* only the missing-info counter goes up.
C28_NamelessTempSkipped ==
    [][(/\ IterationStep
        /\ product_data'.id \notin processed_product_ids
        /\ product_data'.name = NA
        /\ StartsWithTemp(product_data'.id))
       => (/\ NothingMade
           /\ UNCHANGED processed_product_folders
           /\ products_skipped_missing_info'
                = products_skipped_missing_info + 1
           /\ UNCHANGED <<products_added, products_skipped_duplicate_folder,
                          products_skipped_duplicate_id>>)
      ]_vars

\* the second container of a woodmart call had neither ID nor name and was
\* skipped after the first had been added
C28_Witness ==
    /\ dpc = "loop"
    /\ index = 2
    /\ products_added = 1
    /\ products_skipped_missing_info = 1
    /\ product_data.name = NA
    /\ product_data.id = TempPrefix("woodmart") \o <<"2">>
    /\ product_data.folder = None
    /\ gets = <<>>

----------------------------------------------------------------------------
\* C29: a call of extract_product_info on an empty document returns at
\* once: the disk is as it was ("products" is not made), and
\* processed_product_folders is as it was (no scan).
C29_EmptyHtmlNoEffect ==
    [][(dpc = "idle" /\ returned' = "empty_html")
       => (/\ UNCHANGED <<disk_vars, processed_product_folders>>
           /\ dpc' = "idle")
      ]_vars

\* the call on an empty document was made right after a reset, with a folder
\* on disk that a scan would have added to the set
C29_Witness ==
    /\ returned = "empty_html"
    /\ after_reset
    /\ fs_folders # {}
    /\ processed_product_folders = {}

\* C30: a call of extract_product_info with a site_type other than
\* "default" and "woodmart" returns before its loop: no folder, metadata
\* file or image is written and no request is made; but "products" exists
\* afterwards and the names of the folders under it have been added to
\* processed_product_folders.
C30_UnknownSiteTypeScansOnly ==
    [][(dpc = "idle" /\ returned' = "unknown_site_type")
       => (/\ UNCHANGED <<fs_folders, fs_info, fs_images>>
           /\ dpc' = "idle"
           /\ gets' = <<>>
           /\ fs_base'
           /\ processed_product_folders'
                = processed_product_folders \cup fs_folders)
      ]_vars

\* the first call made had an unknown site_type, on a disk where "products"
\* held a folder: its name is tracked now and nothing else was made
C30_Witness ==
    /\ returned = "unknown_site_type"
    /\ site_type = "other"
    /\ ~after_reset
    /\ fs_base
    /\ fs_info = <<>>
    /\ processed_product_folders = {FolderBigLamp}

====
